---- MODULE Spec2Model ----
(***************************************************************************)
(* A model of the terminal mail client's event-driven engine: the          *)
(* application controller (Model.Update), the inbox list, the reader and   *)
(* the composer with its hand-rolled text buffer.  Text is a sequence of   *)
(* one-character strings, so that Go's byte slicing s[:i] / s[i:] becomes   *)
(* Take / Drop on sequences.                                               *)
(***************************************************************************)
EXTENDS Integers, Sequences, FiniteSets, Bags, TLC

VARIABLES
    viewMode,      \* Model.viewMode
    previousView,  \* Model.previousView
    width,         \* Model.width
    height,        \* Model.height
    ready,         \* Model.ready
    err,           \* Model.err
    inbox,         \* *InboxModelImpl
    reader,        \* *ReaderModelImpl
    composer,      \* *ComposerModelImpl
    tasks,         \* commands handed to the runtime and not yet finished (a bag)
    status,        \* "running", "quit" (tea.Quit was returned) or "panic"
    last           \* the event handled by the latest step (history, not program state)

vars == <<viewMode, previousView, width, height, ready, err, inbox, reader,
          composer, tasks, status, last>>

----------------------------------------------------------------------------
(* Bounds of the exploration. *)

\* longest To / Subject / body line that typing is explored on
MaxLen == 3
\* most body lines that typing is explored on
MaxLines == 2
\* most commands in flight at once
MaxTasks == 2
\* most characters (line breaks included) a form typed inside the whole
\* application holds
MaxTyped == 0
\* largest distance of the reader's scroll offset from 0 that is explored
MaxScrollY == 1
\* most characters (line breaks included) a form edited on its own holds
\* after an edit
MaxEdit == 3
\* most commands of a form edited on its own that are in flight at once
MaxPending == 1
\* most commands of a form that has its mail client that are in flight at once
MaxRetryPending == 2
\* most characters (line breaks included) a form that has its mail client
\* holds after an edit
MaxRetryText == 5
\* longest line that wrapping is explored on
MaxWrapLen == 5
\* largest width that wrapping is explored on
MaxWrapWidth == 3
\* longest subject of an original message that reply seeding is explored on
MaxSubject == 4
MaxOffset == 17

----------------------------------------------------------------------------
(* Text helpers: Go strings as sequences of one-character strings. *)

NoErr == "nil"
Nil == "nil"

Min(a, b) == IF a < b THEN a ELSE b
Max(a, b) == IF a > b THEN a ELSE b

\* s[:n]
Take(s, n) == SubSeq(s, 1, n)
\* s[n:]
Drop(s, n) == SubSeq(s, n + 1, Len(s))

\* unicode.IsSpace restricted to the characters of the model
IsSpace(ch) == ch \in {" ", "\t", "\n", "\r"}

RECURSIVE TrimLeft(_)
TrimLeft(s) ==
    IF s # <<>> /\ IsSpace(Head(s)) THEN TrimLeft(Tail(s)) ELSE s

RECURSIVE TrimRight(_)
TrimRight(s) ==
    IF s # <<>> /\ IsSpace(s[Len(s)]) THEN TrimRight(Take(s, Len(s) - 1)) ELSE s

\* strings.TrimSpace
TrimSpace(s) == TrimRight(TrimLeft(s))

\* strings.ToLower on the letters of the model
LowerCh(ch) ==
    CASE ch = "R" -> "r"
      [] ch = "E" -> "e"
      [] ch = "H" -> "h"
      [] OTHER -> ch

ToLower(s) == [i \in 1..Len(s) |-> LowerCh(s[i])]

\* strings.HasPrefix
HasPrefix(s, p) == Len(s) >= Len(p) /\ Take(s, Len(p)) = p

\* strings.Join(lines, "\n")
RECURSIVE JoinLines(_)
JoinLines(lines) ==
    IF lines = <<>> THEN <<>>
    ELSE IF Len(lines) = 1 THEN lines[1]
    ELSE lines[1] \o <<"\n">> \o JoinLines(Tail(lines))

\* strings.Split(s, "\n"): always at least one piece
RECURSIVE SplitFrom(_, _)
SplitFrom(s, cur) ==
    IF s = <<>> THEN <<cur>>
    ELSE IF Head(s) = "\n" THEN <<cur>> \o SplitFrom(Tail(s), <<>>)
    ELSE SplitFrom(Tail(s), Append(cur, Head(s)))

SplitLines(s) == SplitFrom(s, <<>>)

\* strings.Fields: the maximal runs of characters that are no white space
RECURSIVE FieldsFrom(_, _)
FieldsFrom(s, cur) ==
    LET done == IF cur = <<>> THEN <<>> ELSE <<cur>>
    IN IF s = <<>> THEN done
       ELSE IF IsSpace(Head(s)) THEN done \o FieldsFrom(Tail(s), <<>>)
       ELSE FieldsFrom(Tail(s), Append(cur, Head(s)))

Fields(s) == FieldsFrom(s, <<>>)

\* the loop of WrapText over words[1:], currentLine being the line under
\* construction: the lines it appends, the last one included
RECURSIVE PackWords(_, _, _)
PackWords(words, currentLine, w) ==
    IF words = <<>> THEN <<currentLine>>
    ELSE IF Len(currentLine) + 1 + Len(Head(words)) <= w
    THEN PackWords(Tail(words), currentLine \o <<" ">> \o Head(words), w)
    ELSE <<currentLine>> \o PackWords(Tail(words), Head(words), w)

\* the body of WrapText's loop over the lines: what one line contributes
WrapLine(line, w) ==
    IF Len(line) <= w THEN <<line>>
    ELSE LET words == Fields(line)
         IN IF words = <<>> THEN <<line>>
            ELSE PackWords(Tail(words), Head(words), w)

RECURSIVE WrapLines(_, _)
WrapLines(lines, w) ==
    IF lines = <<>> THEN <<>>
    ELSE WrapLine(Head(lines), w) \o WrapLines(Tail(lines), w)

\* WrapText
WrapText(text, w) ==
    IF w <= 0 THEN text
    ELSE JoinLines(WrapLines(SplitLines(text), w))

----------------------------------------------------------------------------
(* Messages (email.Message).  A message is immutable; the views hold        *)
(* references to it, modelled by its ID.                                   *)

\* the text "Unknown Sender"
UnknownSender ==
    <<"U", "n", "k", "n", "o", "w", "n", " ", "S", "e", "n", "d", "e", "r">>

\* The mailbox contents the provider may return.  date stands for the text
\* Date.Format("Mon, Jan 2, 2006 at 3:04 PM") produces for the message.
Message(id) ==
    CASE id = "A" -> [ID |-> "A", From |-> <<"a", "@", "a">>,
                      Subject |-> <<"h">>,
                      Body |-> <<"x", "\n", "y">>, date |-> <<"d">>]
      [] id = "B" -> [ID |-> "B", From |-> <<>>,
                      Subject |-> <<"R", "e", ":", " ", "h">>,
                      Body |-> <<>>, date |-> <<"d">>]
      [] id = "D" -> [ID |-> "D", From |-> <<"a", "@", "a">>,
                      Subject |-> <<"h">>,
                      Body |-> <<"x", "\n", "\n", "y", "\n", "\n", " ">>,
                      date |-> <<"d">>]
      [] id = "E" -> [ID |-> "E", From |-> <<"a", "@", "a">>,
                      Subject |-> <<"h">>,
                      Body |-> <<" ", "\n">>, date |-> <<"d">>]
      [] OTHER    -> [ID |-> id, From |-> <<"a">>,
                      Subject |-> <<>>,
                      Body |-> <<"x", " ", "\n", " ">>, date |-> <<"d">>]

MessageIds == {"A", "B", "C"}

\* index of the first "<" in s, or 0
RECURSIVE IndexOfLt(_, _)
IndexOfLt(s, i) ==
    IF i > Len(s) THEN 0
    ELSE IF s[i] = "<" THEN i
    ELSE IndexOfLt(s, i + 1)

\* strings.Trim(s, `"`)
RECURSIVE TrimQuotes(_)
TrimQuotes(s) ==
    IF s # <<>> /\ Head(s) = "\"" THEN TrimQuotes(Tail(s))
    ELSE IF s # <<>> /\ s[Len(s)] = "\"" THEN TrimQuotes(Take(s, Len(s) - 1))
    ELSE s

\* (*Message).GetDisplayFrom
GetDisplayFrom(msg) ==
    IF msg.From = <<>> THEN UnknownSender
    ELSE LET lt == IndexOfLt(msg.From, 1)
             name == TrimSpace(Take(msg.From, lt - 1))
         IN IF lt > 0 /\ name # <<>> /\ name # <<"\"", "\"">>
            THEN TrimQuotes(name)
            ELSE msg.From

----------------------------------------------------------------------------
(* internal/email: compose helpers. *)

\* mail.ParseAddress succeeds.  Over the characters of the model (no "<",
\* no quotes) an address parses iff it is  atom "@" atom  with optional
\* blanks around it and after the "@".
IsAtom(s) == s # <<>> /\ \A i \in 1..Len(s) : s[i] \notin {" ", "\t", "\n", "\r", "@", "<", ">", "\""}

ParseAddressOK(s) ==
    LET t == TrimSpace(s)
    IN \E i \in 1..Len(t) :
          /\ t[i] = "@"
          /\ IsAtom(Take(t, i - 1))
          /\ IsAtom(TrimLeft(Drop(t, i)))

\* Validate without the check of the address format
ValidateAnyAddress(c) ==
    IF c.To = <<>> THEN "recipient (To) is required"
    ELSE IF c.Subject = <<>> THEN "subject is required"
    ELSE IF c.Body = <<>> THEN "message body is required"
    ELSE NoErr

\* (*ComposeData).Validate: the error, or NoErr
Validate(c) ==
    IF c.To = <<>> THEN "recipient (To) is required"
    ELSE IF ~ParseAddressOK(c.To) THEN "invalid email address"
    ELSE IF c.Subject = <<>> THEN "subject is required"
    ELSE IF c.Body = <<>> THEN "message body is required"
    ELSE NoErr

\* strings.ReplaceAll(s, "  ", " ") applied until no "  " is left
RECURSIVE CollapseSpaces(_)
CollapseSpaces(s) ==
    IF Len(s) < 2 THEN s
    ELSE IF s[1] = " " /\ s[2] = " " THEN CollapseSpaces(Tail(s))
    ELSE <<s[1]>> \o CollapseSpaces(Tail(s))

\* SanitizeSubject
SanitizeSubject(subject) ==
    LET spaced == [i \in 1..Len(subject) |->
                      IF subject[i] \in {"\n", "\r", "\t"} THEN " " ELSE subject[i]]
    IN TrimSpace(CollapseSpaces(spaced))

RePrefix == <<"R", "e", ":", " ">>

\* PrepareReplySubject that prefixes every subject
PrepareReplySubjectAlways(originalSubject) ==
    <<"R", "e", ":", " ">> \o TrimSpace(originalSubject)

\* PrepareReplySubject
PrepareReplySubject(originalSubject) ==
    LET subject == TrimSpace(originalSubject)
    IN IF HasPrefix(ToLower(subject), <<"r", "e", ":">>)
       THEN subject
       ELSE RePrefix \o subject

----------------------------------------------------------------------------
(* Events (tea.Msg) and commands (tea.Cmd). *)

ErrorMsg(e) == [type |-> "ErrorMsg", Error |-> e]
KeyMsg(k) == [type |-> "KeyMsg", key |-> k]
WindowSizeMsg(w, h) == [type |-> "WindowSizeMsg", Width |-> w, Height |-> h]
LoadMessagesMsg(msgs, e) == [type |-> "LoadMessagesMsg", Messages |-> msgs, Error |-> e]
SendMessageMsg(ok, e) == [type |-> "SendMessageMsg", Success |-> ok, Error |-> e]

\* the closure LoadMessages returns: calls GetInboxMessages when run
LoadCmd == [kind |-> "load", Error |-> NoErr, client |-> "client"]
\* the closure sendMessage returns on a validation error: yields the error
RejectCmd(e) == [kind |-> "reject", Error |-> e, client |-> Nil]
\* the closure sendMessage returns otherwise: calls client.SendMessage when run
SendCmd(client) == [kind |-> "send", Error |-> NoErr, client |-> client]

\* what an Update returns: the model, the commands, and whether it panicked
Result(m, cmds) == [m |-> m, cmd |-> cmds, panic |-> FALSE]
Panic(m) == [m |-> m, cmd |-> <<>>, panic |-> TRUE]

----------------------------------------------------------------------------
(* ComposerModelImpl. *)

UserEmail == <<"m", "e">>

\* a constructor leaving the focus of the new form on the body
NewComposerModelImplOnBody(fromEmail) ==
    [fromEmail |-> fromEmail, to |-> <<>>, subject |-> <<>>, body |-> << <<>> >>,
     currentField |-> "BodyField", cursorPos |-> 0, bodyLine |-> 0,
     width |-> 0, height |-> 0, sending |-> FALSE, Sent |-> FALSE,
     Cancelled |-> FALSE, err |-> NoErr, emailClient |-> Nil]

\* NewComposerModelImpl
NewComposerModelImpl(fromEmail) ==
    [fromEmail |-> fromEmail, to |-> <<>>, subject |-> <<>>, body |-> << <<>> >>,
     currentField |-> "ToField", cursorPos |-> 0, bodyLine |-> 0,
     width |-> 0, height |-> 0, sending |-> FALSE, Sent |-> FALSE,
     Cancelled |-> FALSE, err |-> NoErr, emailClient |-> Nil]

\* the attribution line of a reply
Attribution(msg) ==
    <<"O", "n", " ">> \o msg.date \o <<",", " ">> \o GetDisplayFrom(msg)
        \o <<" ", "w", "r", "o", "t", "e", ":">>

\* QuoteLines without the quote mark
QuoteLinesUnmarked(lines) == lines

\* the original body, every line prefixed with "> "
QuoteLines(lines) == [i \in 1..Len(lines) |-> <<">", " ">> \o lines[i]]

\* NewReplyComposerModelImpl
NewReplyComposerModelImpl(fromEmail, originalMsg) ==
    [NewComposerModelImpl(fromEmail) EXCEPT
        !.to = originalMsg.From,
        !.subject = PrepareReplySubject(originalMsg.Subject),
        !.body = << <<>>, <<>>, Attribution(originalMsg), <<>> >>
                     \o QuoteLines(SplitLines(originalMsg.Body)),
        !.currentField = "BodyField"]

\* getCurrentFieldText
getCurrentFieldText(m) ==
    CASE m.currentField = "ToField" -> m.to
      [] m.currentField = "SubjectField" -> m.subject
      [] OTHER -> IF m.bodyLine < Len(m.body) THEN m.body[m.bodyLine + 1] ELSE <<>>

\* setCurrentFieldText
setCurrentFieldText(m, text) ==
    CASE m.currentField = "ToField" -> [m EXCEPT !.to = text]
      [] m.currentField = "SubjectField" -> [m EXCEPT !.subject = text]
      [] OTHER -> IF m.bodyLine < Len(m.body)
                  THEN [m EXCEPT !.body[m.bodyLine + 1] = text]
                  ELSE m

\* the focus order without the way back: shift+tab moves as tab does
FieldAfterForward(f, reverse) ==
    CASE f = "ToField" -> "SubjectField"
      [] f = "SubjectField" -> "BodyField"
      [] OTHER -> "ToField"

\* the field nextField moves to
FieldAfter(f, reverse) ==
    IF reverse
    THEN CASE f = "BodyField" -> "SubjectField"
           [] f = "SubjectField" -> "ToField"
           [] OTHER -> "BodyField"
    ELSE CASE f = "ToField" -> "SubjectField"
           [] f = "SubjectField" -> "BodyField"
           [] OTHER -> "ToField"

\* nextField leaving the cursor column where it was
nextFieldKeepingColumn(m, reverse) ==
    [m EXCEPT !.currentField = FieldAfter(m.currentField, reverse)]

\* nextField
nextField(m, reverse) ==
    LET moved == [m EXCEPT !.currentField = FieldAfter(m.currentField, reverse)]
    IN [moved EXCEPT !.cursorPos = Len(getCurrentFieldText(moved))]

\* handleEnter opening an empty line below the current one, wherever the
\* cursor is
handleEnterBelow(m) ==
    IF m.currentField = "BodyField"
    THEN Result([m EXCEPT
             !.body = Take(m.body, m.bodyLine + 1) \o << <<>> >>
                        \o Drop(m.body, m.bodyLine + 1),
             !.bodyLine = m.bodyLine + 1,
             !.cursorPos = 0], <<>>)
    ELSE Result(nextField(m, FALSE), <<>>)

\* handleEnter
handleEnter(m) ==
    IF m.currentField = "BodyField"
    THEN LET currentLine == IF m.bodyLine < Len(m.body)
                            THEN m.body[m.bodyLine + 1] ELSE <<>>
         IN IF m.cursorPos > Len(currentLine) \/ m.bodyLine >= Len(m.body)
            THEN Panic(m)
            ELSE Result([m EXCEPT
                     !.body = Take(m.body, m.bodyLine)
                                \o <<Take(currentLine, m.cursorPos),
                                     Drop(currentLine, m.cursorPos)>>
                                \o Drop(m.body, m.bodyLine + 1),
                     !.bodyLine = m.bodyLine + 1,
                     !.cursorPos = 0], <<>>)
    ELSE Result(nextField(m, FALSE), <<>>)

\* handleBackspace that after joining two body lines leaves the cursor at the
\* start of the joined line
handleBackspaceToLineStart(m) ==
    IF m.currentField = "BodyField" /\ m.cursorPos = 0
           /\ m.bodyLine > 0 /\ m.bodyLine < Len(m.body)
    THEN Result([m EXCEPT
             !.body = Take(m.body, m.bodyLine - 1)
                        \o <<m.body[m.bodyLine] \o m.body[m.bodyLine + 1]>>
                        \o Drop(m.body, m.bodyLine + 1),
             !.bodyLine = m.bodyLine - 1,
             !.cursorPos = 0], <<>>)
    ELSE Result(m, <<>>)

\* handleBackspace that at column 0 of a body line only moves up a line
handleBackspaceWithoutJoin(m) ==
    IF m.currentField = "BodyField" /\ m.cursorPos = 0 /\ m.bodyLine > 0
    THEN Result([m EXCEPT !.bodyLine = m.bodyLine - 1,
                          !.cursorPos = Len(m.body[m.bodyLine])], <<>>)
    ELSE Result(m, <<>>)

\* handleBackspace
handleBackspace(m) ==
    IF m.currentField = "BodyField"
    THEN IF m.cursorPos > 0
         THEN IF m.bodyLine >= Len(m.body) \/ m.cursorPos > Len(m.body[m.bodyLine + 1])
              THEN Panic(m)
              ELSE LET line == m.body[m.bodyLine + 1]
                   IN Result([m EXCEPT
                          !.body[m.bodyLine + 1] =
                              Take(line, m.cursorPos - 1) \o Drop(line, m.cursorPos),
                          !.cursorPos = m.cursorPos - 1], <<>>)
         ELSE IF m.bodyLine > 0
         THEN IF m.bodyLine >= Len(m.body)
              THEN Panic(m)
              ELSE LET prevLine == m.body[m.bodyLine]
                       currentLine == m.body[m.bodyLine + 1]
                   IN Result([m EXCEPT
                          !.body = Take(m.body, m.bodyLine - 1)
                                     \o <<prevLine \o currentLine>>
                                     \o Drop(m.body, m.bodyLine + 1),
                          !.bodyLine = m.bodyLine - 1,
                          !.cursorPos = Len(prevLine)], <<>>)
         ELSE Result(m, <<>>)
    ELSE LET text == getCurrentFieldText(m)
         IN IF m.cursorPos > 0
            THEN IF m.cursorPos > Len(text)
                 THEN Panic(m)
                 ELSE Result([setCurrentFieldText(m,
                                 Take(text, m.cursorPos - 1) \o Drop(text, m.cursorPos))
                              EXCEPT !.cursorPos = m.cursorPos - 1], <<>>)
            ELSE Result(m, <<>>)

\* handleLeft
handleLeft(m) ==
    IF m.cursorPos > 0 THEN [m EXCEPT !.cursorPos = m.cursorPos - 1] ELSE m

\* handleRight
handleRight(m) ==
    IF m.cursorPos < Len(getCurrentFieldText(m))
    THEN [m EXCEPT !.cursorPos = m.cursorPos + 1]
    ELSE m

\* handleUp
handleUp(m) ==
    IF m.currentField = "BodyField" /\ m.bodyLine > 0
    THEN IF m.bodyLine - 1 >= Len(m.body)
         THEN Panic(m)
         ELSE Result([m EXCEPT
                  !.bodyLine = m.bodyLine - 1,
                  !.cursorPos = Min(m.cursorPos, Len(m.body[m.bodyLine]))], <<>>)
    ELSE Result(m, <<>>)

\* handleDown
handleDown(m) ==
    IF m.currentField = "BodyField" /\ m.bodyLine < Len(m.body) - 1
    THEN Result([m EXCEPT
             !.bodyLine = m.bodyLine + 1,
             !.cursorPos = Min(m.cursorPos, Len(m.body[m.bodyLine + 2]))], <<>>)
    ELSE Result(m, <<>>)

\* handleCharInput
handleCharInput(m, char) ==
    IF m.currentField = "BodyField"
    THEN IF m.bodyLine >= Len(m.body) \/ m.cursorPos > Len(m.body[m.bodyLine + 1])
         THEN Panic(m)
         ELSE LET line == m.body[m.bodyLine + 1]
              IN Result([m EXCEPT
                     !.body[m.bodyLine + 1] =
                         Take(line, m.cursorPos) \o <<char>> \o Drop(line, m.cursorPos),
                     !.cursorPos = m.cursorPos + 1], <<>>)
    ELSE LET text == getCurrentFieldText(m)
         IN IF m.cursorPos > Len(text)
            THEN Panic(m)
            ELSE Result([setCurrentFieldText(m,
                            Take(text, m.cursorPos) \o <<char>> \o Drop(text, m.cursorPos))
                         EXCEPT !.cursorPos = m.cursorPos + 1], <<>>)

\* the payload sendMessage builds
ComposeData(m) ==
    [To |-> TrimSpace(m.to),
     Subject |-> SanitizeSubject(m.subject),
     Body |-> JoinLines(m.body)]

\* sendMessage
sendMessage(m) ==
    LET e == Validate(ComposeData(m))
    IN IF e # NoErr
       THEN Result(m, <<RejectCmd(e)>>)
       ELSE Result([m EXCEPT !.sending = TRUE], <<SendCmd(m.emailClient)>>)

\* the tea.KeyMsg case of (*ComposerModelImpl).Update for a form that is not
\* sending
ComposerKey(m, key) ==
    CASE key \in {"ctrl+c", "esc"} -> Result([m EXCEPT !.Cancelled = TRUE], <<>>)
      [] key = "ctrl+s" -> sendMessage(m)
      [] key \in {"tab", "shift+tab"} -> Result(nextField(m, key = "shift+tab"), <<>>)
      [] key = "enter" -> handleEnter(m)
      [] key = "backspace" -> handleBackspace(m)
      [] key = "left" -> Result(handleLeft(m), <<>>)
      [] key = "right" -> Result(handleRight(m), <<>>)
      [] key = "up" -> handleUp(m)
      [] key = "down" -> handleDown(m)
      [] key = "home" -> Result([m EXCEPT !.cursorPos = 0], <<>>)
      [] key = "end" -> Result([m EXCEPT !.cursorPos = Len(getCurrentFieldText(m))], <<>>)
      [] OTHER -> IF Len(key) = 1
                  THEN handleCharInput(m, key)
                  ELSE Result(m, <<>>)

\* Update handling every key whether or not the form is sending
ComposerUpdateWhileSending(m, msg) ==
    IF msg.type = "KeyMsg" THEN ComposerKey(m, msg.key)
    ELSE IF m.sending /\ msg.type = "SendMessageMsg"
    THEN IF msg.Success
         THEN Result([m EXCEPT !.sending = FALSE, !.Sent = TRUE], <<>>)
         ELSE Result([m EXCEPT !.sending = FALSE, !.err = msg.Error], <<>>)
    ELSE Result(m, <<>>)

\* Update leaving the form sending when the send failed
ComposerUpdateStuckOnFailure(m, msg) ==
    IF m.sending
    THEN IF msg.type = "SendMessageMsg"
         THEN IF msg.Success
              THEN Result([m EXCEPT !.sending = FALSE, !.Sent = TRUE], <<>>)
              ELSE Result([m EXCEPT !.err = msg.Error], <<>>)
         ELSE Result(m, <<>>)
    ELSE IF msg.type = "KeyMsg" THEN ComposerKey(m, msg.key)
    ELSE Result(m, <<>>)

\* (*ComposerModelImpl).Update
ComposerUpdate(m, msg) ==
    IF m.sending
    THEN IF msg.type = "SendMessageMsg"
         THEN IF msg.Success
              THEN Result([m EXCEPT !.sending = FALSE, !.Sent = TRUE], <<>>)
              ELSE Result([m EXCEPT !.sending = FALSE, !.err = msg.Error], <<>>)
         ELSE Result(m, <<>>)
    ELSE IF msg.type = "KeyMsg" THEN ComposerKey(m, msg.key)
    ELSE Result(m, <<>>)

\* (*ComposerModelImpl).SetEmailClient
SetEmailClient(m, client) == [m EXCEPT !.emailClient = client]

\* (*ComposerModelImpl).SetSize
ComposerSetSize(m, w, h) == [m EXCEPT !.width = w, !.height = h]

----------------------------------------------------------------------------
(* InboxModelImpl. *)

\* NewInboxModelImpl
NewInboxModelImpl ==
    [messages |-> <<>>, selected |-> 0, width |-> 0, height |-> 0,
     loading |-> FALSE, err |-> NoErr]

\* (*InboxModelImpl).LoadMessages, and Refresh, which only calls it
LoadMessages(m) == Result([m EXCEPT !.loading = TRUE], <<LoadCmd>>)

\* InboxLoaded without the two checks that keep the selection within bounds
InboxLoadedUnclamped(m, msg) ==
    IF msg.Error # NoErr
    THEN [m EXCEPT !.loading = FALSE, !.err = msg.Error]
    ELSE [m EXCEPT !.loading = FALSE, !.messages = msg.Messages, !.err = NoErr]

\* InboxLoaded moving the selection back to the first row on every success
InboxLoadedToTop(m, msg) ==
    IF msg.Error # NoErr
    THEN [m EXCEPT !.loading = FALSE, !.err = msg.Error]
    ELSE [m EXCEPT !.loading = FALSE, !.messages = msg.Messages, !.err = NoErr,
                   !.selected = 0]

\* InboxLoaded emptying the list when the refresh failed
InboxLoadedClearingOnError(m, msg) ==
    IF msg.Error # NoErr
    THEN [m EXCEPT !.loading = FALSE, !.err = msg.Error, !.messages = <<>>,
                   !.selected = 0]
    ELSE InboxLoadedUnclamped(m, msg)

\* the LoadMessagesMsg case of (*InboxModelImpl).Update
InboxLoaded(m, msg) ==
    IF msg.Error # NoErr
    THEN [m EXCEPT !.loading = FALSE, !.err = msg.Error]
    ELSE LET n == Len(msg.Messages)
             clampedHigh == IF m.selected >= n THEN n - 1 ELSE m.selected
         IN [m EXCEPT !.loading = FALSE, !.messages = msg.Messages, !.err = NoErr,
                      !.selected = IF clampedHigh < 0 THEN 0 ELSE clampedHigh]

\* InboxKey without the check of the loading flag
InboxKeyWhileLoading(m, key) ==
    CASE key \in {"up", "k"} ->
             Result(IF m.selected > 0
                    THEN [m EXCEPT !.selected = m.selected - 1] ELSE m, <<>>)
      [] key \in {"down", "j"} ->
             Result(IF m.selected < Len(m.messages) - 1
                    THEN [m EXCEPT !.selected = m.selected + 1] ELSE m, <<>>)
      [] key = "home" -> Result([m EXCEPT !.selected = 0], <<>>)
      [] key = "end" ->
             Result(IF Len(m.messages) > 0
                    THEN [m EXCEPT !.selected = Len(m.messages) - 1] ELSE m, <<>>)
      [] key = "ctrl+r" -> LoadMessages(m)
      [] OTHER -> Result(m, <<>>)

\* the tea.KeyMsg case of (*InboxModelImpl).Update
InboxKey(m, key) ==
    IF m.loading THEN Result(m, <<>>)
    ELSE CASE key \in {"up", "k"} ->
                  Result(IF m.selected > 0
                         THEN [m EXCEPT !.selected = m.selected - 1] ELSE m, <<>>)
           [] key \in {"down", "j"} ->
                  Result(IF m.selected < Len(m.messages) - 1
                         THEN [m EXCEPT !.selected = m.selected + 1] ELSE m, <<>>)
           [] key = "home" -> Result([m EXCEPT !.selected = 0], <<>>)
           [] key = "end" ->
                  Result(IF Len(m.messages) > 0
                         THEN [m EXCEPT !.selected = Len(m.messages) - 1] ELSE m, <<>>)
           [] key = "ctrl+r" -> LoadMessages(m)
           [] OTHER -> Result(m, <<>>)

\* (*InboxModelImpl).Update
InboxUpdate(m, msg) ==
    CASE msg.type = "KeyMsg" -> InboxKey(m, msg.key)
      [] msg.type = "LoadMessagesMsg" -> Result(InboxLoaded(m, msg), <<>>)
      [] OTHER -> Result(m, <<>>)

\* rows renderMessageList takes off the height for padding
ListPadRows == 2

\* visibleHeight of renderMessageList
VisibleHeight(m) == m.height - ListPadRows

\* a window that always starts at the first message
StartIdxAtTop(m) == 0

\* startIdx of renderMessageList once the selected item was made visible
StartIdx(m) ==
    LET scrolled == IF m.selected >= 0 + VisibleHeight(m)
                    THEN m.selected - VisibleHeight(m) + 1
                    ELSE 0
    IN IF m.selected < scrolled THEN m.selected ELSE scrolled

\* endIdx of renderMessageList
EndIdx(m) ==
    IF StartIdx(m) + VisibleHeight(m) < Len(m.messages)
    THEN StartIdx(m) + VisibleHeight(m)
    ELSE Len(m.messages)

\* the indices of the messages renderMessageList emits a row for
RenderedRows(m) ==
    {i \in 0..(Len(m.messages) - 1) : StartIdx(m) <= i /\ i < EndIdx(m)}

\* whether renderMessageList emits the marker above / below the rows
MoreAbove(m) == StartIdx(m) > 0
MoreBelow(m) == EndIdx(m) < Len(m.messages)

\* (*InboxModelImpl).SetSize
InboxSetSize(m, w, h) == [m EXCEPT !.width = w, !.height = h]

\* GetSelectedMessage giving a message even when the index is out of range
GetSelectedMessageAlways(m) ==
    IF m.selected >= 0 /\ m.selected < Len(m.messages)
    THEN m.messages[m.selected + 1]
    ELSE "A"

\* (*InboxModelImpl).GetSelectedMessage: the message's ID, or Nil
GetSelectedMessage(m) ==
    IF m.selected >= 0 /\ m.selected < Len(m.messages)
    THEN m.messages[m.selected + 1]
    ELSE Nil

----------------------------------------------------------------------------
(* ReaderModelImpl. *)

\* rows SetSize, Update and CanScrollDown take off the height for the header
ReaderHeaderRows == 8

EmptyMessageLine ==
    <<"(", "E", "m", "p", "t", "y", " ", "m", "e", "s", "s", "a", "g", "e", ")">>

\* NewReaderModelImpl
NewReaderModelImpl ==
    [message |-> Nil, width |-> 0, height |-> 0, scrollY |-> 0, bodyLines |-> <<>>]

\* SetMessage keeping the blank lines at the end
DropBlankTailNever(lines) == lines

\* the loop of SetMessage that drops blank lines from the end
RECURSIVE DropBlankTail(_)
DropBlankTail(lines) ==
    IF Len(lines) > 0 /\ TrimSpace(lines[Len(lines)]) = <<>>
    THEN DropBlankTail(Take(lines, Len(lines) - 1))
    ELSE lines

\* (*ReaderModelImpl).SetMessage
SetMessage(m, message) ==
    IF message # Nil
    THEN LET kept == DropBlankTail(SplitLines(Message(message).Body))
         IN [m EXCEPT !.message = message, !.scrollY = 0,
                      !.bodyLines = IF Len(kept) = 0 THEN <<EmptyMessageLine>> ELSE kept]
    ELSE [m EXCEPT !.message = message, !.scrollY = 0, !.bodyLines = <<>>]

\* maxScroll as Update, SetSize and CanScrollDown compute it
ReaderMaxScroll(m, h) == Max(0, Len(m.bodyLines) - (h - ReaderHeaderRows))

\* (*ReaderModelImpl).Update
ReaderUpdate(m, msg) ==
    IF msg.type # "KeyMsg" \/ m.message = Nil THEN Result(m, <<>>)
    ELSE LET maxScroll == ReaderMaxScroll(m, m.height)
             pageSize == m.height - ReaderHeaderRows
         IN CASE msg.key \in {"up", "k"} ->
                     Result(IF m.scrollY > 0
                            THEN [m EXCEPT !.scrollY = m.scrollY - 1] ELSE m, <<>>)
              [] msg.key \in {"down", "j"} ->
                     Result(IF m.scrollY < maxScroll
                            THEN [m EXCEPT !.scrollY = m.scrollY + 1] ELSE m, <<>>)
              [] msg.key = "home" -> Result([m EXCEPT !.scrollY = 0], <<>>)
              [] msg.key = "end" -> Result([m EXCEPT !.scrollY = maxScroll], <<>>)
              [] msg.key = "pgup" ->
                     Result([m EXCEPT !.scrollY = Max(0, m.scrollY - pageSize)], <<>>)
              [] msg.key = "pgdn" ->
                     Result([m EXCEPT !.scrollY = Min(maxScroll, m.scrollY + pageSize)], <<>>)
              [] OTHER -> Result(m, <<>>)

\* rows renderMessageBody takes off the height for header, borders and padding
ReaderBodyRows == 10

\* bodyHeight of renderMessageBody
BodyHeight(m) == Max(1, m.height - ReaderBodyRows)

\* the indices startLine .. endLine - 1 of the body lines renderMessageBody
\* emits when the scroll offset is scrollY
VisibleLines(m, scrollY) ==
    {i \in 0..(Len(m.bodyLines) - 1) :
        scrollY <= i /\ i < Min(scrollY + BodyHeight(m), Len(m.bodyLines))}

\* (*ReaderModelImpl).SetSize
ReaderSetSize(m, w, h) ==
    LET sized == [m EXCEPT !.width = w, !.height = h]
    IN IF m.message # Nil /\ m.scrollY > ReaderMaxScroll(m, h)
       THEN [sized EXCEPT !.scrollY = ReaderMaxScroll(m, h)]
       ELSE sized

----------------------------------------------------------------------------
(* Model: the application controller. *)

\* rows Update takes off the terminal height for header and help
HeaderRows == 4

\* the Model value Update receives
M ==
    [viewMode |-> viewMode, previousView |-> previousView, width |-> width,
     height |-> height, ready |-> ready, err |-> err, inbox |-> inbox,
     reader |-> reader, composer |-> composer]

\* what Model.Update returns: the model, the batched commands, tea.Quit, a panic
AppResult(m, cmds) == [m |-> m, cmd |-> cmds, quit |-> FALSE, panic |-> FALSE]
AppQuit(m) == [m |-> m, cmd |-> <<>>, quit |-> TRUE, panic |-> FALSE]
AppPanic(m) == [m |-> m, cmd |-> <<>>, quit |-> FALSE, panic |-> TRUE]

\* the WindowSizeMsg case of Model.Update
Resized(m, msg) ==
    [m EXCEPT !.width = msg.Width, !.height = msg.Height, !.ready = TRUE,
              !.inbox = InboxSetSize(m.inbox, msg.Width, msg.Height - HeaderRows),
              !.reader = ReaderSetSize(m.reader, msg.Width, msg.Height - HeaderRows),
              !.composer = ComposerSetSize(m.composer, msg.Width, msg.Height - HeaderRows)]

\* the ReaderView case without the reader-specific navigation
DelegateReaderOnly(m, msg) ==
    LET r == ReaderUpdate(m.reader, msg)
    IN AppResult([m EXCEPT !.reader = r.m], r.cmd)

\* the ReaderView case going on to the compose view on escape
DelegateReaderToComposer(m, msg) ==
    LET r == ReaderUpdate(m.reader, msg)
        back == msg.type = "KeyMsg" /\ msg.key = "esc"
    IN AppResult([m EXCEPT !.reader = r.m,
                           !.viewMode = IF back THEN "ComposerView"
                                        ELSE m.viewMode], r.cmd)

\* the ReaderView case of the "Update current view" switch
DelegateReader(m, msg) ==
    LET r == ReaderUpdate(m.reader, msg)
        back == msg.type = "KeyMsg" /\ msg.key = "esc"
    IN AppResult([m EXCEPT !.reader = r.m,
                           !.viewMode = IF back THEN m.previousView
                                        ELSE m.viewMode], r.cmd)

\* the switch refreshing the list whenever the form is done, cancelled too
DelegateRefreshingWhenDone(m, msg) ==
    CASE m.viewMode = "InboxView" ->
             LET r == InboxUpdate(m.inbox, msg)
             IN AppResult([m EXCEPT !.inbox = r.m], r.cmd)
      [] m.viewMode = "ReaderView" -> DelegateReader(m, msg)
      [] OTHER ->
             LET r == ComposerUpdate(m.composer, msg)
                 done == r.m.Sent \/ r.m.Cancelled
                 refresh == LoadMessages(m.inbox)
             IN IF r.panic THEN AppPanic(m)
                ELSE IF done
                THEN AppResult([m EXCEPT !.composer = r.m, !.viewMode = m.previousView,
                                         !.inbox = refresh.m], r.cmd \o refresh.cmd)
                ELSE AppResult([m EXCEPT !.composer = r.m], r.cmd)

\* the switch leaving the compose view only when the form is sent
DelegateLeavingWhenSent(m, msg) ==
    CASE m.viewMode = "InboxView" ->
             LET r == InboxUpdate(m.inbox, msg)
             IN AppResult([m EXCEPT !.inbox = r.m], r.cmd)
      [] m.viewMode = "ReaderView" -> DelegateReader(m, msg)
      [] OTHER ->
             LET r == ComposerUpdate(m.composer, msg)
                 refresh == LoadMessages(m.inbox)
             IN IF r.panic THEN AppPanic(m)
                ELSE IF r.m.Sent
                THEN AppResult([m EXCEPT !.composer = r.m, !.viewMode = m.previousView,
                                         !.inbox = refresh.m], r.cmd \o refresh.cmd)
                ELSE AppResult([m EXCEPT !.composer = r.m], r.cmd)

\* the "Update current view" switch of Model.Update
Delegate(m, msg) ==
    CASE m.viewMode = "InboxView" ->
             LET r == InboxUpdate(m.inbox, msg)
             IN AppResult([m EXCEPT !.inbox = r.m], r.cmd)
      [] m.viewMode = "ReaderView" -> DelegateReader(m, msg)
      [] OTHER ->
             LET r == ComposerUpdate(m.composer, msg)
                 done == r.m.Sent \/ r.m.Cancelled
                 refresh == LoadMessages(m.inbox)
             IN IF r.panic THEN AppPanic(m)
                ELSE IF r.m.Sent
                THEN AppResult([m EXCEPT !.composer = r.m, !.viewMode = m.previousView,
                                         !.inbox = refresh.m], r.cmd \o refresh.cmd)
                ELSE AppResult([m EXCEPT !.composer = r.m,
                                         !.viewMode = IF done THEN m.previousView
                                                      ELSE m.viewMode], r.cmd)

\* the quit keys ending the program in every view
QuitKeyInAnyView(m) == AppQuit(m)

\* the "ctrl+c", "q" case of Model.Update
QuitKey(m) ==
    IF m.viewMode = "InboxView" THEN AppQuit(m)
    ELSE AppResult([m EXCEPT !.viewMode = m.previousView], <<>>)

\* the tea.KeyMsg case of Model.Update, then the delegation
AppKey(m, msg) ==
    LET selectedMsg == GetSelectedMessage(m.inbox)
    IN CASE msg.key \in {"ctrl+c", "q"} -> QuitKey(m)
         [] msg.key = "c" /\ m.viewMode = "InboxView" ->
                AppResult([m EXCEPT !.previousView = "InboxView",
                                    !.viewMode = "ComposerView",
                                    !.composer = NewComposerModelImpl(UserEmail)], <<>>)
         [] msg.key = "r" /\ m.viewMode = "InboxView" /\ selectedMsg # Nil ->
                AppResult([m EXCEPT !.previousView = "InboxView",
                                    !.viewMode = "ComposerView",
                                    !.composer = NewReplyComposerModelImpl(
                                                     UserEmail, Message(selectedMsg))], <<>>)
         [] msg.key = "enter" /\ m.viewMode = "InboxView" /\ selectedMsg # Nil ->
                AppResult([m EXCEPT !.previousView = "InboxView",
                                    !.viewMode = "ReaderView",
                                    !.reader = SetMessage(m.reader, selectedMsg)], <<>>)
         [] OTHER -> Delegate(m, msg)

\* Model.Update
Update(m, msg) ==
    CASE msg.type = "WindowSizeMsg" -> Delegate(Resized(m, msg), msg)
      [] msg.type = "KeyMsg" -> AppKey(m, msg)
      [] msg.type = "ErrorMsg" -> AppResult([m EXCEPT !.err = msg.Error], <<>>)
      [] msg.type = "StatusMsg" -> AppResult(m, <<>>)
      [] OTHER -> Delegate(m, msg)

\* NewModel, then Model.Init: the first load is dispatched
InitialModel ==
    [viewMode |-> "InboxView", previousView |-> "InboxView", width |-> 0,
     height |-> 0, ready |-> FALSE, err |-> NoErr,
     inbox |-> LoadMessages(NewInboxModelImpl).m,
     reader |-> NewReaderModelImpl,
     composer |-> NewComposerModelImpl(UserEmail)]

----------------------------------------------------------------------------
(* The inputs of the exploration. *)

\* the keys the user presses inside the whole application
Keys ==
    {"q", "ctrl+c", "c", "r", "enter", "esc", "up", "down", "ctrl+r", "ctrl+s"}

\* the keys pressed on a form explored on its own
EditKeys ==
    {"a", "enter", "backspace", "left", "right", "up", "down",
     "home", "end", "tab", "shift+tab", "ctrl+s", "esc", "f1"}

\* the terminal sizes a resize reports
Sizes == {<<20, 11>>}

\* what ListMessages may return for the inbox
Lists == {<<>>, <<"A", "B">>}

LoadError == "failed to list messages"
SendError == "failed to send message"

TextOf(c) == <<c.to, c.subject, c.body>>

TextSize(c) == Len(c.to) + Len(c.subject) + Len(JoinLines(c.body))

InBounds(c) ==
    /\ Len(c.to) <= MaxLen
    /\ Len(c.subject) <= MaxLen
    /\ Len(c.body) <= MaxLines
    /\ \A i \in 1..Len(c.body) : Len(c.body[i]) <= MaxLen

\* the cursor stays within the explored part of the text
CursorInBounds(c) == c.bodyLine < MaxLines /\ c.cursorPos <= MaxLen

RECURSIVE AddAll(_, _)
AddAll(bag, cmds) ==
    IF cmds = <<>> THEN bag
    ELSE AddAll(bag (+) SetToBag({Head(cmds)}), Tail(cmds))

----------------------------------------------------------------------------
(* The event loop: one event is handled to completion per step. *)

Init ==
    /\ viewMode = InitialModel.viewMode
    /\ previousView = InitialModel.previousView
    /\ width = InitialModel.width
    /\ height = InitialModel.height
    /\ ready = InitialModel.ready
    /\ err = InitialModel.err
    /\ inbox = InitialModel.inbox
    /\ reader = InitialModel.reader
    /\ composer = InitialModel.composer
    /\ tasks = SetToBag({LoadCmd})
    /\ status = "running"
    /\ last = [type |-> "Init"]

\* the result r of Model.Update on msg becomes the program's model and the
\* commands it returned are started
Commit(r, msg, pending) ==
       /\ BagCardinality(AddAll(pending, r.cmd)) <= MaxTasks
       /\ (viewMode = "ComposerView" /\ TextOf(r.m.composer) # TextOf(composer))
              => (InBounds(r.m.composer) /\ TextSize(r.m.composer) <= MaxTyped)
       /\ (viewMode = "ComposerView" /\ r.m.viewMode = "ComposerView")
              => CursorInBounds(r.m.composer)
       /\ r.m.reader.scrollY \in (0 - MaxScrollY)..MaxScrollY
       /\ viewMode' = r.m.viewMode
       /\ previousView' = r.m.previousView
       /\ width' = r.m.width
       /\ height' = r.m.height
       /\ ready' = r.m.ready
       /\ err' = r.m.err
       /\ inbox' = r.m.inbox
       /\ reader' = r.m.reader
       /\ composer' = r.m.composer
       /\ tasks' = AddAll(pending, r.cmd)
       /\ status' = IF r.panic THEN "panic" ELSE IF r.quit THEN "quit" ELSE "running"
       /\ last' = IF r.m = M /\ r.cmd = <<>> /\ pending = tasks /\ ~r.quit /\ ~r.panic
                  THEN last
                  ELSE msg

\* the program handles msg: Model.Update runs and its commands are started
Handle(msg, pending) == Commit(Update(M, msg), msg, pending)

\* a key press
Key(k) ==
    /\ status = "running"
    /\ Handle(KeyMsg(k), tasks)

\* the terminal is resized
Resize(size) ==
    /\ status = "running"
    /\ Handle(WindowSizeMsg(size[1], size[2]), tasks)

\* a load command finishes with the provider's answer, which Update handles
LoadDone(list, e) ==
    /\ status = "running"
    /\ BagIn(LoadCmd, tasks)
    /\ Handle(LoadMessagesMsg(IF e = NoErr THEN list ELSE <<>>, e),
              tasks (-) SetToBag({LoadCmd}))

\* a command of sendMessage that only reports the validation error finishes
RejectDone(t) ==
    /\ status = "running"
    /\ BagIn(t, tasks)
    /\ t.kind = "reject"
    /\ Handle(SendMessageMsg(FALSE, t.Error), tasks (-) SetToBag({t}))

\* a command of sendMessage that calls SendMessage finishes: on a nil client
\* the call dereferences nil and the program dies
SendDone(t, e) ==
    /\ status = "running"
    /\ BagIn(t, tasks)
    /\ t.kind = "send"
    /\ IF t.client = Nil
       THEN /\ status' = "panic"
            /\ tasks' = tasks (-) SetToBag({t})
            /\ last' = [type |-> "SendPanic"]
            /\ UNCHANGED <<viewMode, previousView, width, height, ready, err,
                           inbox, reader, composer>>
       ELSE Handle(SendMessageMsg(e = NoErr, e), tasks (-) SetToBag({t}))

Next ==
    \/ \E k \in Keys : Key(k)
    \/ \E size \in Sizes : Resize(size)
    \/ \E list \in Lists, e \in {NoErr, LoadError} : LoadDone(list, e)
    \/ \E t \in BagToSet(tasks) : RejectDone(t)
    \/ \E t \in BagToSet(tasks), e \in {NoErr, SendError} : SendDone(t, e)

Spec == Init /\ [][Next]_vars

\* C3: from the list view with a non-empty list, open followed by escape ends
\* in the list view with the selected index and the message sequence of
\* before open.
OpenThenEscapeRestoresList ==
    (status = "running" /\ viewMode = "InboxView" /\ inbox.messages # <<>>) =>
        LET o == Update(M, KeyMsg("enter"))
            e == Update(o.m, KeyMsg("esc"))
        IN /\ o.m.viewMode = "ReaderView"
           /\ ~o.quit /\ ~o.panic
           /\ e.m.viewMode = "InboxView"
           /\ ~e.quit /\ ~e.panic
           /\ e.m.inbox.selected = inbox.selected
           /\ e.m.inbox.messages = inbox.messages

\* C3 witness: the second message was opened and escape was pressed in the
\* reader; the list view is shown again with the second row selected.
BackFromReaderByEscape ==
    /\ last = KeyMsg("esc")
    /\ viewMode = "InboxView"
    /\ ~composer.Cancelled
    /\ inbox.selected = 1
    /\ Len(inbox.messages) = 2
    /\ reader.message = inbox.messages[2]

\* C8: a quit key ends the program only in the list view, loading or not; in
\* the reader and in the compose view it never ends the program and sets the
\* view to previousView, which is the list view.
QuitIsTwoStage ==
    status = "running" =>
        \A k \in {"q", "ctrl+c"} :
            LET r == Update(M, KeyMsg(k))
            IN IF viewMode = "InboxView"
               THEN r.quit
               ELSE /\ ~r.quit
                    /\ ~r.panic
                    /\ r.m.viewMode = previousView
                    /\ r.m.viewMode = "InboxView"

\* C8 witness: the quit key was pressed on a form that is sending; the
\* program runs on and shows the list view.
QuitKeyLeftComposeView ==
    /\ last = KeyMsg("q")
    /\ status = "running"
    /\ viewMode = "InboxView"
    /\ composer.sending

\* the events the compose view may be handed: keys, and the completions of
\* send and load commands
ComposeEvents ==
    {KeyMsg(k) : k \in Keys \cup EditKeys}
        \cup {SendMessageMsg(TRUE, NoErr), SendMessageMsg(FALSE, SendError)}
        \cup {LoadMessagesMsg(list, NoErr) : list \in Lists}

\* r returns a command that loads the list
EmitsRefresh(r) == \E i \in 1..Len(r.cmd) : r.cmd[i] = LoadCmd

\* C14: after an event is delegated to the form in the compose view, the view
\* is previousView when the form is sent or cancelled and is still the
\* compose view when it is neither, and a command that refreshes the list is
\* returned exactly when the form is sent.
ComposeOutcomeDecidesView ==
    (status = "running" /\ viewMode = "ComposerView") =>
        \A msg \in ComposeEvents :
            LET r == Delegate(M, msg)
                done == r.m.composer.Sent \/ r.m.composer.Cancelled
            IN /\ ~r.panic
               /\ done => r.m.viewMode = previousView
               /\ ~done => r.m.viewMode = "ComposerView"
               /\ EmitsRefresh(r) <=> r.m.composer.Sent

\* C14 witness: escape was delegated to a fresh form, which is now cancelled;
\* the view is previousView again and no refresh is in flight.
FreshFormCancelled ==
    /\ last = KeyMsg("esc")
    /\ composer.Cancelled
    /\ ~composer.Sent
    /\ composer.to = <<>>
    /\ viewMode = previousView
    /\ ~BagIn(LoadCmd, tasks)

\* C15: at most one command that loads the list is in flight, and a refresh
\* asked for while the list view is loading, by the refresh key or by the
\* controller after a successful send, returns no command.
OneRefreshInFlight ==
    /\ CopiesIn(LoadCmd, tasks) <= 1
    /\ (status = "running" /\ inbox.loading) =>
          /\ viewMode = "InboxView" => ~EmitsRefresh(Update(M, KeyMsg("ctrl+r")))
          /\ (viewMode = "ComposerView" /\ composer.sending) =>
                ~EmitsRefresh(Update(M, SendMessageMsg(TRUE, NoErr)))

\* C17: in the compose view with the form not sending, escape marks the form
\* cancelled and shows previousView, the list view, in the same step, with no
\* command returned; and whenever the compose view is entered the form is a
\* new one made by a constructor, whatever the form before held.
CancelDiscardsForm ==
    /\ [](((status = "running" /\ viewMode = "ComposerView" /\ ~composer.sending) =>
            LET r == Update(M, KeyMsg("esc"))
            IN /\ r.m.composer.Cancelled
               /\ ~r.m.composer.Sent
               /\ r.m.viewMode = previousView
               /\ r.m.viewMode = "InboxView"
               /\ r.cmd = <<>>
               /\ ~r.quit /\ ~r.panic))
    /\ [][(viewMode # "ComposerView" /\ viewMode' = "ComposerView") =>
            composer' \in {NewComposerModelImpl(UserEmail)}
                \cup {NewReplyComposerModelImpl(UserEmail, Message(id)) :
                          id \in {GetSelectedMessage(inbox)} \ {Nil}}]_vars

\* C17 witness: escape was pressed on a form seeded for a reply, which holds
\* a recipient and a quoted body; the form is cancelled, the list view is
\* shown and nothing is in flight.
ReplyFormCancelled ==
    /\ last = KeyMsg("esc")
    /\ composer.Cancelled
    /\ composer.to # <<>>
    /\ Len(composer.body) > 1
    /\ viewMode = "InboxView"
    /\ tasks = EmptyBag

\* key names of more than one character that neither edit nor leave a form
NamedKeys == {"f1", "pgup", "alt+a", "ctrl+r"}

\* C21: in the compose view with the form not sending, every key of a single
\* character, q, c and r among them, is inserted into the focused text at
\* the cursor column, moves the cursor one to the right and leaves the
\* compose view shown; a key with a longer name is never inserted.
CharKeysAreTyped ==
    (status = "running" /\ viewMode = "ComposerView" /\ ~composer.sending) =>
        /\ \A ch \in {"a", "q", "c", "r"} :
              LET r == Update(M, KeyMsg(ch))
                  text == getCurrentFieldText(composer)
              IN /\ ~r.quit /\ ~r.panic
                 /\ r.m.viewMode = "ComposerView"
                 /\ r.m.composer.currentField = composer.currentField
                 /\ getCurrentFieldText(r.m.composer)
                        = Take(text, composer.cursorPos) \o <<ch>>
                              \o Drop(text, composer.cursorPos)
                 /\ r.m.composer.cursorPos = composer.cursorPos + 1
        /\ \A k \in NamedKeys :
              LET r == Update(M, KeyMsg(k))
              IN /\ TextOf(r.m.composer) = TextOf(composer)
                 /\ r.m.viewMode = "ComposerView"

\* Model.View shows the error page in place of header, content and help
RendersError(m) == m.ready /\ m.err # NoErr

SendHasClient ==
    \A t \in BagToSet(tasks) : t.kind = "send" => t.client # Nil

\* the changes of view the controller may make
ViewChanges ==
    {<<"InboxView", "ReaderView">>, <<"InboxView", "ComposerView">>,
     <<"ReaderView", "InboxView">>, <<"ComposerView", "InboxView">>}

Fairness ==
    /\ WF_vars(\E list \in Lists, e \in {NoErr, LoadError} : LoadDone(list, e))
    /\ WF_vars(\E t \in BagToSet(tasks) : RejectDone(t))
    /\ WF_vars(\E t \in BagToSet(tasks), e \in {NoErr, SendError} : SendDone(t, e))

SpecFair == Init /\ [][Next]_vars /\ Fairness

\* C24: with every command finishing and its message delivered, a loading
\* flag that is set is cleared in the end, whatever keys are pressed and
\* whichever view is shown when the message arrives.
LoadingIsCleared ==
    (status = "running" /\ inbox.loading)
        ~> (~inbox.loading \/ status # "running")

\* C25: with every send command finishing and its message delivered, a form
\* that is sending is in the end sent or failed with the error stored,
\* whatever keys are pressed meanwhile, unless the user quits the program.
SendingIsResolved ==
    (status = "running" /\ composer.sending)
        ~> \/ composer.Sent
           \/ (~composer.sending /\ composer.err # NoErr)
           \/ status = "quit"

\* C26: the sending flag and the outcome of the form shown change only in a
\* step that finishes a send command: a completion coming from a validation
\* failure never clears sending and never marks the form failed.
SendingEndsWithItsSend ==
    [][(/\ viewMode = "ComposerView"
        /\ composer.sending
        /\ <<composer'.sending, composer'.Sent, composer'.err>>
               # <<composer.sending, composer.Sent, composer.err>>)
           => \E t \in BagToSet(tasks) :
                  t.kind = "send" /\ tasks' = tasks (-) SetToBag({t})]_vars

\* C31: a step in which "c" is pressed in the list view ends in the compose
\* view with a form that has an empty recipient, an empty subject, a body of
\* one empty line, the focus on To, the cursor at column 0, and that is not
\* sending, sent, cancelled or failed, whatever form was there before; the
\* list view's messages and selection are unchanged by the step.
ComposeStartsFresh ==
    [][(viewMode = "InboxView" /\ status = "running" /\ last' = KeyMsg("c")
            /\ (last' # last \/ composer' # composer \/ viewMode' # viewMode))
           => /\ viewMode' = "ComposerView"
              /\ previousView' = "InboxView"
              /\ composer'.to = <<>>
              /\ composer'.subject = <<>>
              /\ composer'.body = << <<>> >>
              /\ composer'.currentField = "ToField"
              /\ composer'.cursorPos = 0
              /\ composer'.bodyLine = 0
              /\ ~composer'.sending
              /\ ~composer'.Sent
              /\ ~composer'.Cancelled
              /\ composer'.err = NoErr
              /\ inbox'.messages = inbox.messages
              /\ inbox'.selected = inbox.selected]_vars

\* C31 witness: "c" was pressed on the list with its second row selected
\* while the send command of an earlier, submitted reply form is still in
\* flight, and the form shown is empty.
ComposedAfterSubmittedReply ==
    /\ last = KeyMsg("c")
    /\ viewMode = "ComposerView"
    /\ composer.to = <<>>
    /\ ~composer.sending
    /\ BagIn(SendCmd(Nil), tasks)
    /\ inbox.messages = <<"A", "B">>
    /\ inbox.selected = 1
    /\ status = "running"

\* C32: once a resize has been handled, the list view, the reader and the
\* form each hold the terminal width and the terminal height less the rows
\* of header and help, in every later state, also for a form created later.
SubViewsHoldContentArea ==
    ready =>
        /\ <<inbox.width, inbox.height>> = <<width, height - HeaderRows>>
        /\ <<reader.width, reader.height>> = <<width, height - HeaderRows>>
        /\ <<composer.width, composer.height>> = <<width, height - HeaderRows>>

----------------------------------------------------------------------------
(* The list view on its own: InboxModelImpl driven by its keys, by the      *)
(* completions of its load commands and by SetSize.  It starts as Init      *)
(* leaves it, loading, with the first load command in flight.              *)

\* the keys pressed on the list view
InboxKeys == {"up", "k", "down", "j", "home", "end", "ctrl+r", "enter"}

\* what ListMessages may return for the list view explored on its own
InboxLists == {<<>>, <<"B">>, <<"A", "B">>, <<"A", "B", "C">>}

\* InboxModelImpl.Update handles msg and the commands it returns are started
InboxHandle(msg, pending) ==
    LET r == InboxUpdate(inbox, msg)
    IN /\ BagCardinality(AddAll(pending, r.cmd)) <= MaxTasks
       /\ inbox' = r.m
       /\ tasks' = AddAll(pending, r.cmd)
       /\ last' = IF r.m = inbox /\ r.cmd = <<>> /\ pending = tasks THEN last ELSE msg
       /\ UNCHANGED <<viewMode, previousView, width, height, ready, err, reader,
                      composer, status>>

InboxKeyPress(k) == InboxHandle(KeyMsg(k), tasks)

InboxLoadDone(list, e) ==
    /\ BagIn(LoadCmd, tasks)
    /\ InboxHandle(LoadMessagesMsg(IF e = NoErr THEN list ELSE <<>>, e),
                   tasks (-) SetToBag({LoadCmd}))

InboxResize(size) ==
    /\ inbox' = InboxSetSize(inbox, size[1], size[2] - HeaderRows)
    /\ last' = IF inbox' = inbox THEN last ELSE WindowSizeMsg(size[1], size[2])
    /\ UNCHANGED <<viewMode, previousView, width, height, ready, err, reader,
                   composer, tasks, status>>

\* the terminal sizes the list view explored on its own is resized to: they
\* leave it 5, 2 and 1 visible rows
InboxSizes == Sizes \cup {<<20, 8>>, <<20, 7>>}

NextInbox ==
    \/ \E k \in InboxKeys : InboxKeyPress(k)
    \/ \E list \in InboxLists, e \in {NoErr, LoadError} : InboxLoadDone(list, e)
    \/ \E size \in InboxSizes : InboxResize(size)

SpecInbox == Init /\ [][NextInbox]_vars

\* C37: when the list is non-empty and at least one row is visible, the rows
\* the list view renders are a run of consecutive messages that contains the
\* selected one and has at most as many rows as are visible; the marker
\* above is shown exactly when a message precedes the first rendered row and
\* the marker below exactly when a message follows the last rendered row.
WindowHoldsSelection ==
    (inbox.messages # <<>> /\ VisibleHeight(inbox) >= 1) =>
        LET rows == RenderedRows(inbox)
            all == 0..(Len(inbox.messages) - 1)
        IN /\ inbox.selected \in rows
           /\ Cardinality(rows) <= VisibleHeight(inbox)
           /\ \A i \in rows, j \in rows, k \in all : (i < k /\ k < j) => k \in rows
           /\ MoreAbove(inbox) <=> \E k \in all : \A i \in rows : k < i
           /\ MoreBelow(inbox) <=> \E k \in all : \A i \in rows : k > i

\* C37 witness: three messages are listed with one visible row and the
\* middle message selected, so that both markers are shown.
MiddleRowInOneRowWindow ==
    /\ inbox.messages = <<"A", "B", "C">>
    /\ inbox.height = 3
    /\ inbox.selected = 1
    /\ ~inbox.loading
    /\ MoreAbove(inbox)
    /\ MoreBelow(inbox)
    /\ last = KeyMsg("down")

\* C1: in every reachable state of the list view the selected index is at
\* least 0 and below the number of messages, and is 0 when there are none.
SelectedInBounds ==
    /\ inbox.selected >= 0
    /\ (Len(inbox.messages) = 0 => inbox.selected = 0)
    /\ (Len(inbox.messages) > 0 => inbox.selected < Len(inbox.messages))

\* C1 witness: a refresh has delivered a single message, shorter than the
\* list navigated before, and the selection is that message's row.
SelectionClampedByShorterList ==
    /\ last.type = "LoadMessagesMsg"
    /\ last.Error = NoErr
    /\ Len(last.Messages) = 1
    /\ inbox.messages = last.Messages
    /\ inbox.selected = 0

\* C7: a refresh that completes successfully with the list the view already
\* shows leaves the message sequence and the selected index as they were.
SameListKeepsSelection ==
    [][(/\ last'.type = "LoadMessagesMsg"
        /\ last'.Error = NoErr
        /\ inbox.err = NoErr
        /\ last'.Messages = inbox.messages)
       => (inbox'.messages = inbox.messages /\ inbox'.selected = inbox.selected)]_vars

\* C7 witness: the third row was selected after a first refresh delivered
\* three messages, and a second refresh has delivered the same three.
SecondRefreshOfSameList ==
    /\ last.type = "LoadMessagesMsg"
    /\ last.Error = NoErr
    /\ last.Messages = <<"A", "B", "C">>
    /\ inbox.messages = last.Messages
    /\ inbox.selected = 2

\* the keys that move the selection
NavigationKeys == {"up", "k", "down", "j", "home", "end"}

\* C12: a refresh that completes with an error stores the error and clears
\* the loading flag, and leaves the message sequence and the selected index
\* exactly as they were before the completion.
FailedRefreshKeepsList ==
    [][(last'.type = "LoadMessagesMsg" /\ last'.Error # NoErr)
       => /\ inbox'.err = last'.Error
          /\ ~inbox'.loading
          /\ inbox'.messages = inbox.messages
          /\ inbox'.selected = inbox.selected]_vars

\* C12 witness: a refresh has failed while the third of three messages was
\* selected; the error is stored and the three messages are still listed.
RefreshFailedOnFullList ==
    /\ last.type = "LoadMessagesMsg"
    /\ last.Error = LoadError
    /\ inbox.err = LoadError
    /\ ~inbox.loading
    /\ inbox.messages = <<"A", "B", "C">>
    /\ inbox.selected = 2

\* C13: while the list view is loading, every key that moves the selection
\* leaves the selected index and the message sequence unchanged.
LoadingIgnoresNavigation ==
    inbox.loading =>
        \A k \in NavigationKeys :
            LET r == InboxUpdate(inbox, KeyMsg(k))
            IN /\ r.m.selected = inbox.selected
               /\ r.m.messages = inbox.messages
               /\ r.cmd = <<>>

\* C13 witness: the list view is loading again after a refresh was requested
\* with the middle one of three messages selected, where up, down, home and
\* end would each move the selection.
LoadingWithMiddleRowSelected ==
    /\ inbox.loading
    /\ last = KeyMsg("ctrl+r")
    /\ inbox.messages = <<"A", "B", "C">>
    /\ inbox.selected = 1

\* C16: the completion of a refresh that is handled while the list view is
\* not loading is ignored: the message sequence, the selected index and the
\* stored error are unchanged by it.
LateCompletionIsIgnored ==
    ~inbox.loading =>
        \A list \in InboxLists, e \in {NoErr, LoadError} :
            LET r == InboxUpdate(inbox, LoadMessagesMsg(IF e = NoErr THEN list
                                                        ELSE <<>>, e))
            IN /\ r.m.messages = inbox.messages
               /\ r.m.selected = inbox.selected
               /\ r.m.err = inbox.err

----------------------------------------------------------------------------
(* The compose form on its own: ComposerModelImpl driven by its keys and by *)
(* the completions of the commands it returned.  It starts as a form the   *)
(* application creates (fresh, or seeded for a reply) or as a fresh form    *)
(* that has been filled in and whose focus is back on To at column 0.      *)

\* a fresh form after to, subject and body were typed into it
Filled(to, subject, body) ==
    [NewComposerModelImpl(UserEmail) EXCEPT !.to = to, !.subject = subject,
                                            !.body = body]

FilledForms ==
    {Filled(to, subject, body) :
        to \in {<<" ">>, <<"a">>, <<"a", "@", "a">>},
        subject \in {<<>>, <<"h">>},
        body \in {<< <<>> >>, << <<"x">> >>, << <<>>, <<>> >>,
                  << <<"x", "y">>, <<"z">> >>}}

EditForms ==
    {NewComposerModelImpl(UserEmail)}
        \cup {NewReplyComposerModelImpl(UserEmail, Message(id)) : id \in MessageIds}
        \cup FilledForms

InitForms(forms) ==
    /\ viewMode = "ComposerView"
    /\ previousView = InitialModel.previousView
    /\ width = InitialModel.width
    /\ height = InitialModel.height
    /\ ready = InitialModel.ready
    /\ err = InitialModel.err
    /\ inbox = NewInboxModelImpl
    /\ reader = InitialModel.reader
    /\ composer \in forms
    /\ tasks = EmptyBag
    /\ status = "running"
    /\ last = [type |-> "Init"]

InitEdit == InitForms(EditForms)

\* the result r of ComposerModelImpl.Update on msg becomes the form and the
\* commands it returned are started; a panic ends the program
EditCommit(r, msg, pending) ==
       /\ BagCardinality(AddAll(pending, r.cmd)) <= MaxPending
       /\ TextOf(r.m) # TextOf(composer)
              => (InBounds(r.m) /\ TextSize(r.m) <= MaxEdit)
       /\ composer' = r.m
       /\ tasks' = AddAll(pending, r.cmd)
       /\ status' = IF r.panic THEN "panic" ELSE "running"
       /\ last' = IF r.m = composer /\ r.cmd = <<>> /\ pending = tasks /\ ~r.panic
                  THEN last
                  ELSE msg
       /\ UNCHANGED <<viewMode, previousView, width, height, ready, err, inbox,
                      reader>>

\* ComposerModelImpl.Update handles msg
EditHandle(msg, pending) == EditCommit(ComposerUpdate(composer, msg), msg, pending)

\* a key press on a form that is still open
EditKey(k) ==
    /\ status = "running"
    /\ ~(composer.Sent \/ composer.Cancelled)
    /\ EditHandle(KeyMsg(k), tasks)

\* the command that only reports the validation error finishes
EditRejectDone(t) ==
    /\ status = "running"
    /\ ~(composer.Sent \/ composer.Cancelled)
    /\ BagIn(t, tasks)
    /\ t.kind = "reject"
    /\ EditHandle(SendMessageMsg(FALSE, t.Error), tasks (-) SetToBag({t}))

\* the command that calls SendMessage finishes: on a nil client the call
\* dereferences nil and the program dies
EditSendDone(t, e) ==
    /\ status = "running"
    /\ ~(composer.Sent \/ composer.Cancelled)
    /\ BagIn(t, tasks)
    /\ t.kind = "send"
    /\ IF t.client = Nil
       THEN /\ status' = "panic"
            /\ tasks' = tasks (-) SetToBag({t})
            /\ last' = [type |-> "SendPanic"]
            /\ UNCHANGED <<viewMode, previousView, width, height, ready, err,
                           inbox, reader, composer>>
       ELSE EditHandle(SendMessageMsg(e = NoErr, e), tasks (-) SetToBag({t}))

NextEdit ==
    \/ \E k \in EditKeys : EditKey(k)
    \/ \E t \in BagToSet(tasks) : EditRejectDone(t)
    \/ \E t \in BagToSet(tasks), e \in {NoErr, SendError} : EditSendDone(t, e)

SpecEdit == InitEdit /\ [][NextEdit]_vars

\* a form that validation must reject: the trimmed recipient is empty or is
\* no address (it lacks an "@", say), or the subject or the body text is empty
InvalidForm(c) ==
    \/ TrimSpace(c.to) = <<>>
    \/ \A i \in 1..Len(c.to) : c.to[i] # "@"
    \/ ~ParseAddressOK(TrimSpace(c.to))
    \/ c.subject = <<>>
    \/ JoinLines(c.body) = <<>>

\* C2: pressing submit on a form that validation must reject never sets
\* the sending flag and never returns the command that calls SendMessage.
InvalidSubmitNeverSends ==
    InvalidForm(composer) =>
        LET r == ComposerUpdate(composer, KeyMsg("ctrl+s"))
        IN /\ ~r.m.sending
           /\ ~r.panic
           /\ \A i \in 1..Len(r.cmd) : r.cmd[i].kind # "send"

\* C2 witness: submit was pressed on a form whose recipient lacks an "@";
\* the form is not sending and only the reporting command is in flight.
InvalidSubmitPressed ==
    /\ last = KeyMsg("ctrl+s")
    /\ composer.to = <<"a">>
    /\ composer.subject # <<>>
    /\ JoinLines(composer.body) # <<>>
    /\ ~composer.sending
    /\ tasks = SetToBag({RejectCmd("invalid email address")})

\* C34: Enter with the focus on Body and the cursor at (l, c) adds exactly
\* one line: the lines before l and after l are the old ones (the latter
\* one place further down), line l is the first c characters of the old
\* line, line l + 1 is its remainder, and the cursor is at (l + 1, 0).  Enter
\* with the focus on To or Subject changes no text and does what tab does.
EnterSplitsLine ==
    (~composer.sending /\ status = "running") =>
        LET r == ComposerUpdate(composer, KeyMsg("enter"))
            old == composer.body
            l == composer.bodyLine
            c == composer.cursorPos
        IN IF composer.currentField = "BodyField"
           THEN /\ ~r.panic
                /\ r.cmd = <<>>
                /\ Len(r.m.body) = Len(old) + 1
                /\ \A i \in 1..l : r.m.body[i] = old[i]
                /\ r.m.body[l + 1] = SubSeq(old[l + 1], 1, c)
                /\ r.m.body[l + 2] = SubSeq(old[l + 1], c + 1, Len(old[l + 1]))
                /\ \A i \in (l + 2)..Len(old) : r.m.body[i + 1] = old[i]
                /\ r.m.bodyLine = l + 1
                /\ r.m.cursorPos = 0
                /\ r.m = [composer EXCEPT !.body = r.m.body, !.bodyLine = l + 1,
                                          !.cursorPos = 0]
           ELSE /\ r = ComposerUpdate(composer, KeyMsg("tab"))
                /\ TextOf(r.m) = TextOf(composer)
                /\ r.m.currentField # composer.currentField

\* C34 witness: Enter has split the body line "aa" of a form between its two
\* characters.
LineSplitBetweenCharacters ==
    /\ last = KeyMsg("enter")
    /\ composer.currentField = "BodyField"
    /\ composer.body = << <<"a">>, <<"a">> >>
    /\ composer.bodyLine = 1
    /\ composer.cursorPos = 0
    /\ status = "running"

\* C35: Backspace at column 0 changes nothing when the focus is on To, on
\* Subject or on the first body line; on another body line l it removes
\* exactly one line, line l - 1 becomes the old lines l - 1 and l joined, the
\* other lines are the old ones, and the cursor is at (l - 1, old length of
\* line l - 1).  At any column Backspace changes no field but the focused one.
BackspaceAtLineStart ==
    (~composer.sending /\ status = "running") =>
        LET r == ComposerUpdate(composer, KeyMsg("backspace"))
            old == composer.body
            l == composer.bodyLine
        IN /\ ~r.panic
           /\ r.cmd = <<>>
           /\ composer.currentField # "ToField" => r.m.to = composer.to
           /\ composer.currentField # "SubjectField" => r.m.subject = composer.subject
           /\ composer.currentField # "BodyField" =>
                 r.m.body = old /\ r.m.bodyLine = l
           /\ r.m.currentField = composer.currentField
           /\ composer.cursorPos = 0 =>
                 IF composer.currentField = "BodyField" /\ l > 0
                 THEN /\ Len(r.m.body) = Len(old) - 1
                      /\ \A i \in 1..(l - 1) : r.m.body[i] = old[i]
                      /\ r.m.body[l] = old[l] \o old[l + 1]
                      /\ \A i \in (l + 1)..Len(r.m.body) : r.m.body[i] = old[i + 1]
                      /\ r.m.bodyLine = l - 1
                      /\ r.m.cursorPos = Len(old[l])
                      /\ r.m = [composer EXCEPT !.body = r.m.body,
                                                !.bodyLine = l - 1,
                                                !.cursorPos = Len(old[l])]
                 ELSE r.m = composer

\* C35 witness: Backspace has left a body of the single line "aa" with the
\* cursor between the two characters, where the join of the lines "a" and
\* "a" puts it.
LinesJoinedAtCursor ==
    /\ last = KeyMsg("backspace")
    /\ composer.currentField = "BodyField"
    /\ composer.body = << <<"a", "a">> >>
    /\ composer.bodyLine = 0
    /\ composer.cursorPos = 1
    /\ composer.to = <<>>
    /\ status = "running"

\* C36: a form all of whose body lines are empty, however many there are,
\* is never sending: its submission is rejected by validation.
TextlessBodyNeverSends ==
    (\A i \in 1..Len(composer.body) : composer.body[i] = <<>>) =>
        /\ ~composer.sending
        /\ ~ComposerUpdate(composer, KeyMsg("ctrl+s")).m.sending

\* C4: with the focus on Body, Enter followed by Backspace restores the body
\* lines and the cursor (line and column) of before Enter.
EnterThenBackspaceIsIdentity ==
    (composer.currentField = "BodyField" /\ ~composer.sending /\ status = "running") =>
        LET e == handleEnter(composer)
            b == handleBackspace(e.m)
        IN /\ ~e.panic
           /\ ~b.panic
           /\ e.m.body # composer.body
           /\ b.m.body = composer.body
           /\ b.m.bodyLine = composer.bodyLine
           /\ b.m.cursorPos = composer.cursorPos
           /\ b.m.to = composer.to
           /\ b.m.subject = composer.subject

\* C4 witness: Enter has split a body line inside its text, and Backspace
\* pressed here joins the two halves back with the cursor at the split.
LineSplitInsideText ==
    /\ last = KeyMsg("enter")
    /\ composer.currentField = "BodyField"
    /\ composer.bodyLine = 1
    /\ composer.cursorPos = 0
    /\ composer.body[1] # <<>>
    /\ composer.body[2] # <<>>
    /\ handleBackspace(composer).m.body = <<composer.body[1] \o composer.body[2]>>
    /\ handleBackspace(composer).m.cursorPos = Len(composer.body[1])

\* C9: in every reachable state of a form the body has at least one line,
\* bodyLine indexes a body line, and the cursor column lies between 0 and
\* the length of the focused text.
CursorWithinText ==
    /\ Len(composer.body) >= 1
    /\ composer.bodyLine >= 0
    /\ composer.bodyLine < Len(composer.body)
    /\ composer.cursorPos >= 0
    /\ composer.cursorPos <= Len(getCurrentFieldText(composer))
    /\ status = "panic" => last.type = "SendPanic"

\* C9 witness: Up has moved the cursor from a longer body line to a shorter
\* one, and the column is the end of the shorter line.
CursorClampedByUp ==
    /\ last = KeyMsg("up")
    /\ composer.currentField = "BodyField"
    /\ composer.bodyLine = 0
    /\ Len(composer.body) = 2
    /\ Len(composer.body[1]) < Len(composer.body[2])
    /\ composer.cursorPos = Len(composer.body[1])

\* C10: while the form is sending, a key changes nothing of the form and
\* returns no command, and an event other than the completion of a send
\* changes nothing either.
SendingIgnoresKeys ==
    composer.sending =>
        /\ \A k \in EditKeys \cup Keys :
              ComposerUpdate(composer, KeyMsg(k)) = Result(composer, <<>>)
        /\ \A size \in Sizes :
              ComposerUpdate(composer, WindowSizeMsg(size[1], size[2]))
                  = Result(composer, <<>>)
        /\ \A list \in Lists :
              ComposerUpdate(composer, LoadMessagesMsg(list, NoErr))
                  = Result(composer, <<>>)
        /\ ComposerUpdate(composer, SendMessageMsg(TRUE, NoErr)).m # composer
        /\ ComposerUpdate(composer, SendMessageMsg(FALSE, SendError)).m # composer

\* C10 witness: a valid form was submitted and is sending, its send command
\* is in flight, and the form is the one the submit left.
FormIsSending ==
    /\ composer.sending
    /\ last = KeyMsg("ctrl+s")
    /\ tasks = SetToBag({SendCmd(composer.emailClient)})
    /\ status = "running"
    /\ ~composer.Sent
    /\ ~composer.Cancelled

\* C11: once the failure event of a submit that failed validation has been
\* processed, the form's stored error is the validation error and the form
\* is not sending.
RejectedSubmitStoresError ==
    (last.type = "SendMessageMsg" /\ ~last.Success /\ status = "running") =>
        /\ composer.err = last.Error
        /\ ~composer.sending

\* C20: tab moves the focus To -> Subject -> Body -> To and shift+tab moves
\* it the other way, so tab then shift+tab restores the focus and three
\* presses of either return to the starting field; after every focus change
\* the cursor column is the length of the newly focused text.
FocusCycles ==
    (status = "running" /\ ~composer.sending) =>
        \A back \in BOOLEAN :
            LET key == IF back THEN "shift+tab" ELSE "tab"
                other == IF back THEN "tab" ELSE "shift+tab"
                one == ComposerUpdate(composer, KeyMsg(key))
                two == ComposerUpdate(one.m, KeyMsg(key))
                three == ComposerUpdate(two.m, KeyMsg(key))
                undone == ComposerUpdate(one.m, KeyMsg(other))
                order == <<"ToField", "SubjectField", "BodyField", "ToField">>
            IN /\ \E i \in 1..3 :
                     /\ composer.currentField = order[IF back THEN i + 1 ELSE i]
                     /\ one.m.currentField = order[IF back THEN i ELSE i + 1]
               /\ one.m.currentField # composer.currentField
               /\ two.m.currentField \notin {composer.currentField, one.m.currentField}
               /\ three.m.currentField = composer.currentField
               /\ undone.m.currentField = composer.currentField
               /\ \A r \in {one, two, three, undone} :
                     /\ r.cmd = <<>> /\ ~r.panic
                     /\ r.m.cursorPos = Len(getCurrentFieldText(r.m))
                     /\ TextOf(r.m) = TextOf(composer)
                     /\ r.m.bodyLine = composer.bodyLine

\* C20 witness: tab has moved the focus from To to a subject that has text,
\* and the cursor is at the end of that subject.
TabMovedToSubjectEnd ==
    /\ last = KeyMsg("tab")
    /\ composer.currentField = "SubjectField"
    /\ composer.subject # <<>>
    /\ composer.cursorPos = Len(composer.subject)

----------------------------------------------------------------------------
(* Reply seeding on its own: NewReplyComposerModelImpl applied to original *)
(* messages drawn from bounded sets of senders, subjects and bodies.       *)

\* the characters of the subjects
SubjectChars == {"R", "r", "e", ":", " ", "h"}

\* every text of at most n characters of SubjectChars
RECURSIVE TextsUpTo(_)
TextsUpTo(n) ==
    IF n = 0 THEN {<<>>}
    ELSE LET shorter == TextsUpTo(n - 1)
         IN shorter \cup {Append(t, ch) : t \in shorter, ch \in SubjectChars}

Senders == {<<"a", "@", "a">>, <<>>, <<"n", " ", "<", "a", "@", "a", ">">>}

Bodies == {<<>>, <<"x">>, <<"x", "\n", "y">>, <<"x", "\n">>, <<"\n", " ">>}

Original(from, subject, body) ==
    [ID |-> "O", From |-> from, Subject |-> subject, Body |-> body,
     date |-> <<"d">>]

\* every subject on one sender and body, every sender and body on two subjects
Originals ==
    {Original(<<"a", "@", "a">>, subject, <<"x">>) : subject \in TextsUpTo(MaxSubject)}
        \cup {Original(from, subject, body) :
                 from \in Senders, subject \in {<<>>, <<"h">>}, body \in Bodies}

InitReply == InitForms({NewComposerModelImpl(UserEmail)})

\* the one reply of a run, on the message originalMsg: the form is replaced
\* by the seeded one
Reply(originalMsg) ==
    /\ last.type = "Init"
    /\ composer' = NewReplyComposerModelImpl(UserEmail, originalMsg)
    /\ last' = [type |-> "Reply", message |-> originalMsg]
    /\ UNCHANGED <<viewMode, previousView, width, height, ready, err, inbox,
                   reader, tasks, status>>

NextReply == \E originalMsg \in Originals : Reply(originalMsg)

SpecReply == InitReply /\ [][NextReply]_vars

\* the number of line breaks in the text s
RECURSIVE Breaks(_)
Breaks(s) ==
    IF s = <<>> THEN 0
    ELSE (IF Head(s) = "\n" THEN 1 ELSE 0) + Breaks(Tail(s))

\* C5: a form seeded from the message M has M's sender as recipient; its
\* body is two empty lines, the attribution line, an empty line and then
\* "> " + x for every line x of M's body, in order; the focus is on Body and
\* the cursor is at line 0, column 0, inside the body.
ReplySeeded ==
    last.type = "Reply" =>
        LET o == last.message
            n == Breaks(o.Body) + 1
            quoted == SubSeq(composer.body, 5, Len(composer.body))
            unquoted == [i \in 1..Len(quoted) |-> Drop(quoted[i], 2)]
        IN /\ composer.to = o.From
           /\ Len(composer.body) = 4 + n
           /\ composer.body[1] = <<>>
           /\ composer.body[2] = <<>>
           /\ composer.body[3] = <<"O", "n", " ">> \o o.date \o <<",", " ">>
                                    \o GetDisplayFrom(o)
                                    \o <<" ", "w", "r", "o", "t", "e", ":">>
           /\ composer.body[4] = <<>>
           /\ \A i \in 1..n : /\ Len(quoted[i]) >= 2
                               /\ Take(quoted[i], 2) = <<">", " ">>
                               /\ Breaks(unquoted[i]) = 0
           /\ JoinLines(unquoted) = o.Body
           /\ composer.currentField = "BodyField"
           /\ composer.bodyLine = 0
           /\ composer.cursorPos = 0
           /\ composer.cursorPos <= Len(composer.body[composer.bodyLine + 1])

\* C5 witness: a form was seeded from a message with a two-line body.
ReplyQuotesTwoLines ==
    /\ last.type = "Reply"
    /\ last.message.Body = <<"x", "\n", "y">>
    /\ last.message.From = <<"a", "@", "a">>
    /\ composer.to = <<"a", "@", "a">>
    /\ Len(composer.body) = 6
    /\ composer.body[5] = <<">", " ", "x">>
    /\ composer.body[6] = <<">", " ", "y">>

\* C6: the seeded subject is the original subject itself when that starts,
\* case-insensitively, with "re:", and is "Re: " followed by the original
\* subject otherwise.
ReplySubjectOfOriginal ==
    last.type = "Reply" =>
        LET subject == last.message.Subject
        IN IF HasPrefix(ToLower(subject), <<"r", "e", ":">>)
           THEN composer.subject = subject
           ELSE composer.subject = <<"R", "e", ":", " ">> \o subject

\* C6, amended: with t the original subject without its leading and
\* trailing white space, the seeded subject is t when t starts,
\* case-insensitively, with "re:", and is "Re: " followed by t otherwise.
ReplySubjectOfTrimmed ==
    last.type = "Reply" =>
        LET t == TrimSpace(last.message.Subject)
        IN IF HasPrefix(ToLower(t), <<"r", "e", ":">>)
           THEN composer.subject = t
           ELSE composer.subject = <<"R", "e", ":", " ">> \o t

\* C6 witness: a form was seeded from a subject that has white space before
\* a reply prefix, and the seeded subject is the subject without it.
ReplySubjectWasTrimmed ==
    /\ last.type = "Reply"
    /\ last.message.Subject = <<" ", "R", "e", ":">>
    /\ composer.subject = <<"R", "e", ":">>

----------------------------------------------------------------------------
(* The reader on its own: ReaderModelImpl given messages by SetMessage,     *)
(* driven by its scroll keys and resized by SetSize.  It starts as          *)
(* NewReaderModelImpl leaves it, without a message and with height 0.       *)

\* the messages shown in the reader explored on its own
ReaderMessageIds == MessageIds \cup {"D", "E"}

\* the keys pressed in the reader
ReaderKeys == {"up", "k", "down", "j", "home", "end", "pgup", "pgdn"}

\* the heights SetSize is called with; the first two are below the rows the
\* reader takes off for the header
ReaderHeights == {0, 7, 9, 10}

InitReader ==
    /\ viewMode = "ReaderView"
    /\ previousView = InitialModel.previousView
    /\ width = InitialModel.width
    /\ height = InitialModel.height
    /\ ready = InitialModel.ready
    /\ err = InitialModel.err
    /\ inbox = NewInboxModelImpl
    /\ reader = NewReaderModelImpl
    /\ composer = InitialModel.composer
    /\ tasks = EmptyBag
    /\ status = "running"
    /\ last = [type |-> "Init"]

\* SetMessage is called with a message of the list
ReaderSet(id) ==
    /\ reader' = SetMessage(reader, id)
    /\ last' = [type |-> "SetMessage", message |-> id]
    /\ UNCHANGED <<viewMode, previousView, width, height, ready, err, inbox,
                   composer, tasks, status>>

\* a key press handled by (*ReaderModelImpl).Update
ReaderKeyPress(k) ==
    /\ reader' = ReaderUpdate(reader, KeyMsg(k)).m
    /\ reader'.scrollY \in (0 - MaxOffset)..MaxOffset
    /\ last' = IF reader' = reader THEN last ELSE KeyMsg(k)
    /\ UNCHANGED <<viewMode, previousView, width, height, ready, err, inbox,
                   composer, tasks, status>>

\* SetSize is called with a new height
ReaderResize(h) ==
    /\ reader' = ReaderSetSize(reader, 20, h)
    /\ last' = IF reader' = reader THEN last ELSE WindowSizeMsg(20, h)
    /\ UNCHANGED <<viewMode, previousView, width, height, ready, err, inbox,
                   composer, tasks, status>>

NextReader ==
    \/ \E id \in ReaderMessageIds : ReaderSet(id)
    \/ \E k \in ReaderKeys : ReaderKeyPress(k)
    \/ \E h \in ReaderHeights : ReaderResize(h)

SpecReader == InitReader /\ [][NextReader]_vars

\* the line s holds nothing but white space
Blank(s) == TrimSpace(s) = <<>>

\* C18: SetMessage with a message resets the scroll offset to 0 and makes the
\* display lines the body split on newlines without the blank lines at its
\* end: there is always at least one line, and it is the single line
\* "(Empty message)" when the body is empty or blank throughout.
SetMessageSplitsAndTrims ==
    \A id \in ReaderMessageIds :
        LET r == SetMessage(reader, id)
            split == SplitLines(Message(id).Body)
            kept == {i \in 1..Len(split) : ~Blank(split[i])}
        IN /\ r.message = id
           /\ r.scrollY = 0
           /\ Len(r.bodyLines) >= 1
           /\ IF kept = {}
              THEN r.bodyLines = <<EmptyMessageLine>>
              ELSE /\ ~Blank(r.bodyLines[Len(r.bodyLines)])
                   /\ Len(r.bodyLines) <= Len(split)
                   /\ \A i \in 1..Len(r.bodyLines) : r.bodyLines[i] = split[i]
                   /\ \A i \in kept : i <= Len(r.bodyLines)

\* C18 witness: SetMessage was given a body with a blank line inside and
\* three blank lines at its end; the inner blank line is kept and the scroll
\* offset is 0.
MessageWithBlankTailSet ==
    /\ last = [type |-> "SetMessage", message |-> "D"]
    /\ reader.message = "D"
    /\ reader.bodyLines = << <<"x">>, <<>>, <<"y">> >>
    /\ reader.scrollY = 0

\* C19: in every reachable state of the reader the scroll offset is at least
\* 0 and at most max(0, lineCount - viewportHeight), where the viewport is
\* the height less the rows of the header.
ScrollOffsetInRange ==
    /\ reader.scrollY >= 0
    /\ reader.scrollY <= Max(0, Len(reader.bodyLines)
                                    - (reader.height - ReaderHeaderRows))


----------------------------------------------------------------------------
(* The compose form with its mail client set (SetEmailClient), so that a   *)
(* send command reaches the mail service and comes back with success or    *)
(* with the service's error.  Every command in flight was returned by this *)
(* one form.                                                               *)

\* the keys pressed on the form that has its client
RetryKeys == {"a", "backspace", "tab", "shift+tab", "ctrl+s", "esc"}

\* filled forms with the client set: one lacks its subject and is rejected
\* by validation, the other is valid
RetryForms ==
    {SetEmailClient(Filled(<<"a", "@", "a">>, subject, << <<"x">> >>), "client") :
        subject \in {<<>>, <<"h">>}}

InitRetry == InitForms(RetryForms)

\* the result r of ComposerModelImpl.Update on msg becomes the form and the
\* commands it returned are started
RetryCommit(r, msg, pending) ==
       /\ BagCardinality(AddAll(pending, r.cmd)) <= MaxRetryPending
       /\ TextOf(r.m) # TextOf(composer)
              => (InBounds(r.m) /\ TextSize(r.m) <= MaxRetryText)
       /\ composer' = r.m
       /\ tasks' = AddAll(pending, r.cmd)
       /\ status' = IF r.panic THEN "panic" ELSE "running"
       /\ last' = IF r.m = composer /\ r.cmd = <<>> /\ pending = tasks /\ ~r.panic
                  THEN last
                  ELSE msg
       /\ UNCHANGED <<viewMode, previousView, width, height, ready, err, inbox,
                      reader>>

\* ComposerModelImpl.Update handles msg
RetryHandle(msg, pending) ==
    RetryCommit(ComposerUpdate(composer, msg), msg, pending)

\* a key press on a form that is still open
RetryKey(k) ==
    /\ status = "running"
    /\ ~(composer.Sent \/ composer.Cancelled)
    /\ RetryHandle(KeyMsg(k), tasks)

\* the command that only reports the validation error finishes
RetryRejectDone(t) ==
    /\ status = "running"
    /\ ~(composer.Sent \/ composer.Cancelled)
    /\ BagIn(t, tasks)
    /\ t.kind = "reject"
    /\ RetryHandle(SendMessageMsg(FALSE, t.Error), tasks (-) SetToBag({t}))

\* the command that calls SendMessage finishes with the service's answer
RetrySendDone(t, e) ==
    /\ status = "running"
    /\ ~(composer.Sent \/ composer.Cancelled)
    /\ BagIn(t, tasks)
    /\ t.kind = "send"
    /\ t.client # Nil
    /\ RetryHandle(SendMessageMsg(e = NoErr, e), tasks (-) SetToBag({t}))

NextRetry ==
    \/ \E k \in RetryKeys : RetryKey(k)
    \/ \E t \in BagToSet(tasks) : RetryRejectDone(t)
    \/ \E t \in BagToSet(tasks), e \in {NoErr, SendError} : RetrySendDone(t, e)

SpecRetry == InitRetry /\ [][NextRetry]_vars

\* C27: at most one send command of the form is in flight at any time.
OneSendInFlight ==
    \A t \in BagToSet(tasks) : t.kind = "send" => CopiesIn(t, tasks) <= 1


\* what the user has entered into the form and where the cursor is
Entered(c) == <<c.to, c.subject, c.body, c.currentField, c.cursorPos, c.bodyLine>>

EveryLineCanBeShown ==
    LET viewport == reader.height - ReaderHeaderRows
        maxScroll == ReaderMaxScroll(reader, reader.height)
    IN (reader.message # Nil /\ viewport >= 1 /\ Len(reader.bodyLines) > viewport) =>
           /\ (Len(reader.bodyLines) - 1) \in VisibleLines(reader, maxScroll)
           /\ \A i \in 0..(Len(reader.bodyLines) - 1) :
                  \E scrollY \in 0..maxScroll : i \in VisibleLines(reader, scrollY)


----------------------------------------------------------------------------
(* WrapText on its own: the reader hands it one body line and a width.     *)

\* the characters of the lines that are wrapped
WrapChars == {"a", "b", " "}

RECURSIVE LinesUpTo(_)
LinesUpTo(n) ==
    IF n = 0 THEN {<<>>}
    ELSE LET shorter == LinesUpTo(n - 1)
         IN shorter \cup {Append(s, ch) : s \in shorter, ch \in WrapChars}

\* one call of WrapText, on the line text and the width w
Wrap(text, w) ==
    /\ last.type = "Init"
    /\ last' = [type |-> "WrapText", text |-> text, width |-> w,
                out |-> WrapText(text, w)]
    /\ UNCHANGED <<viewMode, previousView, width, height, ready, err, inbox,
                   reader, composer, tasks, status>>

NextWrap == \E text \in LinesUpTo(MaxWrapLen), w \in 0..MaxWrapWidth : Wrap(text, w)

SpecWrap == InitReader /\ [][NextWrap]_vars

RECURSIVE AllFields(_)
AllFields(lines) ==
    IF lines = <<>> THEN <<>> ELSE Fields(Head(lines)) \o AllFields(Tail(lines))

\* C38: wrapping a line to a positive width w gives lines whose tokens, read
\* in order, are the tokens of the line; a token starts a new line only if
\* it did not fit behind the line before it with one space between; and
\* every line has at most w characters unless it is one token longer than w.
WrapKeepsTokensAndWidth ==
    (last.type = "WrapText" /\ last.width > 0) =>
        LET out == SplitLines(last.out)
            w == last.width
        IN /\ AllFields(out) = Fields(last.text)
           /\ \A i \in 2..Len(out) :
                  /\ Fields(out[i]) # <<>>
                  /\ Len(out[i - 1]) + 1 + Len(Fields(out[i])[1]) > w
           /\ \A i \in 1..Len(out) :
                  \/ Len(out[i]) <= w
                  \/ Fields(out[i]) = <<out[i]>>

====
